---- MODULE Spec2Model ----
(***************************************************************************)
(* OpenAIForeignDataWrapper (src/openai_fdw.py): the schema-driven         *)
(* validation and coercion pipeline behind execute().                      *)
(*                                                                         *)
(* Values are Python objects as json.loads builds them, written            *)
(* [t |-> <type name>, v |-> <str() of the value>]; a dict carries its     *)
(* items as a function from keys to values, a parsed top-level list its    *)
(* elements as a sequence.                                                 *)
(***************************************************************************)
EXTENDS Integers, Sequences, FiniteSets, TLC

VARIABLES
    columns,        \* self.columns: ordered <<[name, type_name], ...>>
    column_names,   \* self.column_names
    response_cache, \* self._response_cache
    pc,             \* position of the execute() generator
    response_data,  \* execute's local: the parsed list, or None
    idx,            \* execute's for-loop position in response_data
    http,           \* what the completion endpoint answered this invocation
    yielded,        \* rows handed to the caller by this invocation
    diag,           \* log_to_postgres events of this invocation
    requests,       \* requests.post calls issued so far, all invocations
    invocations,    \* execute() calls so far
    consumed,       \* execute() generators the caller started consuming
    row_data,       \* SpecRow: the candidate row under test
    stage,          \* SpecRow / SpecExtract: which function has been applied
    verdict,        \* SpecRow: result of _validate_row_schema
    converted,      \* SpecRow: result of _convert_row_to_postgres_format
    content,        \* SpecExtract: choices[0].message.content
    data            \* SpecExtract: what _make_openai_request returns for content

vars == <<columns, column_names, response_cache, pc, response_data, idx, http,
          yielded, diag, requests, invocations, consumed,
          row_data, stage, verdict, converted, content, data>>

pipeVars == <<pc, response_data, idx, http, yielded, diag, requests,
              invocations, consumed>>
rowVars == <<row_data, verdict, converted>>
extractVars == <<content, data>>

----------------------------------------------------------------------------
(* Bounds *)

\* longest JSON array the endpoint answers with
MaxElems == 2
\* execute() calls on one wrapper instance
MaxCalls == 2

----------------------------------------------------------------------------
(* Python values *)

PyVal(t, v) == [t |-> t, v |-> v]
NoneVal == PyVal("NoneType", "None")
TrueVal == PyVal("bool", "True")
IntOne == PyVal("int", "1")
\* an integer literal of 401 digits: json.loads builds an int, float() cannot hold it
IntHuge == PyVal("int", "10^400")
FloatVal == PyVal("float", "3.5")
StrVal == PyVal("str", "x")
ListVal == PyVal("list", "[]")
DictVal == PyVal("dict", "{}")
Raise(exc) == [t |-> "raise", v |-> exc]

\* isinstance(value, classes); bool is a subclass of int
IsInstance(value, classes) ==
    \/ value.t \in classes
    \/ value.t = "bool" /\ "int" \in classes

\* int(value)
PyInt(value) ==
    CASE value.t = "int" -> value
      [] value.t = "bool" -> PyVal("int", IF value.v = "True" THEN "1" ELSE "0")
      [] value.t = "float" -> PyVal("int", IF value.v = "3.5" THEN "3" ELSE "0")
      [] value.t = "str" -> Raise("ValueError")
      [] OTHER -> Raise("TypeError")

\* float(value)
PyFloat(value) ==
    CASE value.t = "float" -> value
      [] value.t = "int" -> IF value = IntHuge THEN Raise("OverflowError")
                            ELSE PyVal("float", IF value.v = "1" THEN "1.0" ELSE "0.0")
      [] value.t = "bool" -> PyVal("float", IF value.v = "True" THEN "1.0" ELSE "0.0")
      [] value.t = "str" -> Raise("ValueError")
      [] OTHER -> Raise("TypeError")

\* bool(value)
PyBool(value) ==
    PyVal("bool", IF value.v \in {"None", "False", "0", "0.0", "", "[]", "{}"}
                  THEN "False" ELSE "True")

\* str(value)
PyStr(value) == PyVal("str", value.v)

\* type_name.lower()
Lower(s) ==
    CASE s = "BIGINT" -> "bigint"
      [] s = "Text" -> "text"
      [] OTHER -> s

----------------------------------------------------------------------------
(* PostgreSQL type-name lists *)

IntTypes == {"integer", "int4", "int8", "bigint", "smallint"}
FloatTypes == {"real", "float4", "float8", "double precision", "numeric", "decimal"}
BoolTypes == {"boolean", "bool"}
TextTypes == {"text", "varchar", "char", "date", "timestamp", "timestamptz"}

----------------------------------------------------------------------------
(* _validate_row_schema *)

\* the isinstance chain applied to one present value
ValueTypeOk(type_name, value) ==
    LET pg_type == Lower(type_name) IN
    IF pg_type \in IntTypes THEN IsInstance(value, {"int"})
    ELSE IF pg_type \in FloatTypes THEN IsInstance(value, {"int", "float"})
    ELSE IF pg_type \in BoolTypes THEN IsInstance(value, {"bool"})
    ELSE IF pg_type \in TextTypes THEN IsInstance(value, {"str"})
    ELSE TRUE

ValidateRowSchemaStrict(cols, row) ==
    IF row.t # "dict" THEN FALSE
    ELSE \A i \in 1..Len(cols) :
            /\ cols[i].name \in DOMAIN row.v
            /\ ValueTypeOk(cols[i].type_name, row.v[cols[i].name])

ValidateRowSchemaNullOk(cols, row) ==
    IF row.t # "dict" THEN FALSE
    ELSE \A i \in 1..Len(cols) :
            cols[i].name \in DOMAIN row.v =>
                \/ row.v[cols[i].name] = NoneVal
                \/ ValueTypeOk(cols[i].type_name, row.v[cols[i].name])

ValidateRowSchema(cols, row) ==
    IF row.t # "dict" THEN FALSE
    ELSE \A i \in 1..Len(cols) :
            cols[i].name \in DOMAIN row.v =>
                ValueTypeOk(cols[i].type_name, row.v[cols[i].name])

----------------------------------------------------------------------------
(* _convert_row_to_postgres_format *)

\* self.columns[column_name]
ColumnDef(cols, name) == cols[CHOOSE i \in 1..Len(cols) : cols[i].name = name]

ConvertValueNoCoerce(type_name, value) == value

\* one present value: None passes through, anything else is coerced by type
ConvertValue(type_name, value) ==
    LET pg_type == Lower(type_name) IN
    IF value = NoneVal THEN NoneVal
    ELSE IF pg_type \in IntTypes THEN PyInt(value)
    ELSE IF pg_type \in FloatTypes THEN PyFloat(value)
    ELSE IF pg_type \in BoolTypes THEN PyBool(value)
    ELSE PyStr(value)

\* a variant that walks the row's keys instead of self.column_names
ConvertRowByRowKeys(cols, names, row) ==
    LET present == SelectSeq(names, LAMBDA n : n \in DOMAIN row.v) IN
    [i \in 1..Len(present) |->
        [k |-> present[i],
         val |-> ConvertValue(ColumnDef(cols, present[i]).type_name, row.v[present[i]])]]

\* converted_row as built by the loop over self.column_names: an insertion-
\* ordered dict, written as the sequence of its items
ConvertRow(cols, names, row) ==
    [i \in 1..Len(names) |->
        [k |-> names[i],
         val |-> IF names[i] \in DOMAIN row.v
                 THEN ConvertValue(ColumnDef(cols, names[i]).type_name, row.v[names[i]])
                 ELSE NoneVal]]

\* a coercion raised: the call raises and no row is returned
ConvertRaises(conv) == \E i \in 1..Len(conv) : conv[i].val.t = "raise"

----------------------------------------------------------------------------
(* log_to_postgres (multicorn.utils) *)

Event(level, msg) == [level |-> level, msg |-> msg]
HasError(log) == \E i \in 1..Len(log) : log[i].level = "ERROR"

\* What a call at level ERROR does is Multicorn's, not this file's: its
\* log_to_postgres hands ERROR to PostgreSQL's error report, which aborts the
\* running query instead of returning (__init__ relies on that to make api_key
\* and prompt required); a sink that only records returns.  Both are kept.
ErrorOutcomes == {"returns", "aborts"}

----------------------------------------------------------------------------
(* Response text.  content is [text, doc]: text is the character sequence  *)
(* ("tick" is the backquote character) with "$" standing where the JSON    *)
(* document, or the prose, doc is written.                                  *)

Fence == <<"tick", "tick", "tick">>
FenceJson == <<"tick", "tick", "tick", "j", "s", "o", "n">>
FencePy == <<"tick", "tick", "tick", "p", "y">>
NL == <<"\n">>
Body == <<"$">>

IsSpace(c) == c \in {" ", "\n"}

RECURSIVE LStrip(_)
LStrip(s) == IF s # <<>> /\ IsSpace(Head(s)) THEN LStrip(Tail(s)) ELSE s

RECURSIVE RStrip(_)
RStrip(s) ==
    IF s # <<>> /\ IsSpace(s[Len(s)]) THEN RStrip(SubSeq(s, 1, Len(s) - 1)) ELSE s

\* str.strip()
Strip(s) == RStrip(LStrip(s))

\* str.startswith / str.endswith
StartsWith(s, p) == Len(s) >= Len(p) /\ SubSeq(s, 1, Len(p)) = p
EndsWith(s, p) == Len(s) >= Len(p) /\ SubSeq(s, Len(s) - Len(p) + 1, Len(s)) = p

\* the two ifs that drop a leading fence-plus-json (7 characters) and a
\* trailing fence (3 characters), then strip
StripFences(s) ==
    LET a == IF StartsWith(s, FenceJson) THEN SubSeq(s, 8, Len(s)) ELSE s
        b == IF EndsWith(a, Fence) THEN SubSeq(a, 1, Len(a) - 3) ELSE a
    IN Strip(b)

\* json.loads: only the bare document parses; prose, or a document with
\* backticks or a tag left around it, is a JSONDecodeError
JsonLoads(text, doc) ==
    IF text = Body /\ doc.t # "prose" THEN doc ELSE Raise("JSONDecodeError")

\* from .strip() of the content to the return of the parsed list, or of None
ParseContent(c) ==
    LET parsed == JsonLoads(StripFences(Strip(c.text)), c.doc) IN
    IF parsed.t = "raise"
    THEN [data |-> NoneVal, log |-> <<Event("ERROR", "Failed to parse JSON response")>>]
    ELSE IF parsed.t # "list"
    THEN [data |-> NoneVal, log |-> <<Event("ERROR", "Expected JSON array")>>]
    ELSE [data |-> parsed, log |-> <<Event("INFO", "Successfully parsed rows")>>]

----------------------------------------------------------------------------
(* _make_openai_request.  An answer h of the endpoint is [kind, text, doc]: *)
(* kind says how far the HTTP exchange got.                                 *)

Http(kind, text, doc) == [kind |-> kind, text |-> text, doc |-> doc]
NoHttp == Http("none", <<>>, NoneVal)

FailureKinds ==
    {"ConnectionError",  \* requests.post raises a RequestException (timeout too)
     "HTTPError",        \* raise_for_status raises
     "NoChoices",        \* the envelope has no choices field
     "EmptyChoices",     \* the choices field is empty
     "BadEnvelope"}      \* no message/content under choices[0]: KeyError, TypeError

RequestOutcome(h) ==
    CASE h.kind \in {"ConnectionError", "HTTPError"} ->
            [data |-> NoneVal, log |-> <<Event("ERROR", "HTTP request failed")>>]
      [] h.kind \in {"NoChoices", "EmptyChoices"} ->
            [data |-> NoneVal, log |-> <<Event("ERROR", "No choices in OpenAI response")>>]
      [] h.kind = "BadEnvelope" ->
            [data |-> NoneVal, log |-> <<Event("ERROR", "Unexpected error in OpenAI request")>>]
      [] OTHER -> ParseContent(h)

MakeOpenAIRequestRetry(h) ==
    LET r == RequestOutcome(h) IN
    [data |-> r.data,
     log |-> <<Event("DEBUG", "Making OpenAI API request")>> \o r.log,
     posts |-> IF r.data = NoneVal THEN 2 ELSE 1]

\* posts counts the requests.post calls made
MakeOpenAIRequest(h) ==
    LET r == RequestOutcome(h) IN
    [data |-> r.data,
     log |-> <<Event("DEBUG", "Making OpenAI API request")>> \o r.log,
     posts |-> 1]

----------------------------------------------------------------------------
(* Inputs *)

Col(name, type_name) == [name |-> name, type_name |-> type_name]
Row(items) == [t |-> "dict", v |-> items]
EmptyItems == [k \in {} |-> NoneVal]
ListOf(elems) == [t |-> "list", v |-> elems]
Prose == [t |-> "prose", v |-> "Sorry, I cannot comply."]

\* list(columns.keys())
NamesOf(cols) == [i \in 1..Len(cols) |-> cols[i].name]

\* the JSON values a field can carry
FieldValues == {NoneVal, TrueVal, IntOne, IntHuge, FloatVal, StrVal, ListVal, DictVal}

\* table definitions the pipeline is run with
PipeSchemas ==
    {<<Col("a", "integer"), Col("b", "text")>>,
     <<Col("a", "boolean")>>,
     <<Col("b", "Text"), Col("a", "float8")>>,
     <<Col("a", "uuid")>>}

\* elements of the parsed array: objects, and one element that is no object
PipeElems ==
    {Row("a" :> x) : x \in {NoneVal, TrueVal, IntOne, IntHuge, FloatVal, StrVal}}
    \cup {Row(EmptyItems),
          Row("a" :> IntOne @@ "b" :> StrVal @@ "z" :> IntOne),
          IntOne}

SeqsUpTo(S, n) == UNION {[1..k -> S] : k \in 0..n}

\* documents the model writes: arrays, an object, a number, prose
PipeDocs ==
    {ListOf(e) : e \in SeqsUpTo(PipeElems, MaxElems)}
    \cup {Row("a" :> IntOne), IntOne, Prose}

PipeTexts == {Body, FenceJson \o NL \o Body \o NL \o Fence}

HttpResponses ==
    {Http(k, <<>>, NoneVal) : k \in FailureKinds}
    \cup {Http("ok", t, d) : t \in PipeTexts, d \in PipeDocs}

----------------------------------------------------------------------------
(* execute: a generator.  Each step is one next() of the caller, which runs *)
(* the body to its next yield, its return, or the exception it raises.      *)

\* if not response_data
Falsy(d) == d = NoneVal \/ (d.t = "list" /\ d.v = <<>>)

\* the for loop from element i to the next yield, the end of the list, or a
\* raise out of the converter (caught, logged at ERROR and re-raised)
RECURSIVE Advance(_, _, _, _)
Advance(cols, names, d, i) ==
    IF i > Len(d.v)
    THEN [pc |-> "returned", idx |-> i, log |-> <<>>, out |-> <<>>]
    ELSE IF ValidateRowSchema(cols, d.v[i])
    THEN LET conv == ConvertRow(cols, names, d.v[i]) IN
         IF ConvertRaises(conv)
         THEN [pc |-> "raised", idx |-> i,
               log |-> <<Event("ERROR", "Error in OpenAI FDW execution")>>,
               out |-> <<>>]
         ELSE [pc |-> "suspended", idx |-> i, log |-> <<>>, out |-> <<conv>>]
    ELSE LET rest == Advance(cols, names, d, i + 1) IN
         [rest EXCEPT !.log = <<Event("WARNING", "Skipping invalid row")>> \o @]

\* __init__ with api_key and prompt given
Init ==
    /\ columns \in PipeSchemas
    /\ column_names = NamesOf(columns)
    /\ response_cache = NoneVal
    /\ pc = "idle"
    /\ response_data = NoneVal
    /\ idx = 0
    /\ http = NoHttp
    /\ yielded = <<>>
    /\ diag = <<>>
    /\ requests = 0
    /\ invocations = 0
    /\ consumed = 0
    /\ row_data = NoneVal /\ stage = "pipeline" /\ verdict = FALSE
    /\ converted = <<>> /\ content = NoHttp /\ data = NoneVal

\* the host calls execute(quals, columns): a fresh generator, nothing run yet
Execute ==
    /\ pc \in {"idle", "returned", "raised", "aborted", "closed"}
    /\ invocations < MaxCalls
    /\ invocations' = invocations + 1
    /\ pc' = "created"
    /\ response_data' = NoneVal
    /\ idx' = 0
    /\ http' = NoHttp
    /\ yielded' = <<>>
    /\ diag' = <<>>
    /\ UNCHANGED <<columns, column_names, response_cache, requests, consumed,
                   rowVars, extractVars, stage>>

\* the first next(): the request, the empty-answer check, the loop to its
\* first yield
NextFirst ==
    /\ pc = "created"
    /\ \E h \in HttpResponses, sink \in ErrorOutcomes :
        LET r == MakeOpenAIRequest(h)
            a == Advance(columns, column_names, r.data, 1)
        IN
        /\ http' = h
        /\ requests' = requests + r.posts
        /\ consumed' = consumed + 1
        /\ IF HasError(r.log) /\ sink = "aborts"
           THEN /\ pc' = "aborted"
                /\ diag' = r.log
                /\ UNCHANGED <<response_data, idx, yielded>>
           ELSE IF Falsy(r.data)
           THEN /\ pc' = "returned"
                /\ diag' = r.log \o <<Event("WARNING", "No data returned from OpenAI API")>>
                /\ response_data' = r.data
                /\ UNCHANGED <<idx, yielded>>
           ELSE /\ pc' = IF a.pc = "raised" /\ sink = "aborts" THEN "aborted" ELSE a.pc
                /\ diag' = r.log \o a.log
                /\ response_data' = r.data
                /\ idx' = a.idx
                /\ yielded' = yielded \o a.out
    /\ UNCHANGED <<columns, column_names, response_cache, invocations,
                   rowVars, extractVars, stage>>

\* a later next(): the loop resumes after the yield
NextResume ==
    /\ pc = "suspended"
    /\ \E sink \in ErrorOutcomes :
        LET a == Advance(columns, column_names, response_data, idx + 1) IN
        /\ pc' = IF a.pc = "raised" /\ sink = "aborts" THEN "aborted" ELSE a.pc
        /\ diag' = diag \o a.log
        /\ idx' = a.idx
        /\ yielded' = yielded \o a.out
    /\ UNCHANGED <<columns, column_names, response_cache, response_data, http,
                   requests, invocations, consumed, rowVars, extractVars, stage>>

\* the caller stops consuming: the generator is closed where it stands
Close ==
    /\ pc \in {"created", "suspended"}
    /\ pc' = "closed"
    /\ UNCHANGED <<columns, column_names, response_cache, response_data, idx, http,
                   yielded, diag, requests, invocations, consumed,
                   rowVars, extractVars, stage>>

Next == Execute \/ NextFirst \/ NextResume \/ Close

Spec == Init /\ [][Next]_vars

----------------------------------------------------------------------------
(* _validate_row_schema and _convert_row_to_postgres_format on their own:   *)
(* one table definition, one candidate row, validated and then converted.   *)

RowColNames == {"a", "b"}
RowTypeNames ==
    {"integer", "BIGINT", "float8", "bool", "text", "date", "timestamp", "uuid"}

RowSchemas ==
    {<<Col(n, ty)>> : n \in RowColNames, ty \in RowTypeNames}
    \cup {<<Col(n[1], ty[1]), Col(n[2], ty[2])>> :
            n \in {<<"a", "b">>, <<"b", "a">>},
            ty \in RowTypeNames \X RowTypeNames}

RowKeys == {"a", "b", "z"}
RowKeyValues(key) ==
    CASE key = "a" -> FieldValues
      [] key = "b" -> {NoneVal, IntOne, FloatVal, StrVal}
      [] OTHER -> {IntOne, StrVal}

RowInputs ==
    UNION {{Row(f) : f \in {g \in [K -> FieldValues] :
                                \A key \in K : g[key] \in RowKeyValues(key)}} :
            K \in SUBSET RowKeys}
    \cup {IntOne, StrVal, ListVal}

InitRow ==
    /\ columns \in RowSchemas
    /\ column_names = NamesOf(columns)
    /\ response_cache = NoneVal
    /\ row_data \in RowInputs
    /\ stage = "input"
    /\ verdict = FALSE
    /\ converted = <<>>
    /\ pc = "idle" /\ response_data = NoneVal /\ idx = 0 /\ http = NoHttp
    /\ yielded = <<>> /\ diag = <<>> /\ requests = 0 /\ invocations = 0
    /\ consumed = 0 /\ content = NoHttp /\ data = NoneVal

Validate ==
    /\ stage = "input"
    /\ verdict' = ValidateRowSchema(columns, row_data)
    /\ stage' = "validated"
    /\ UNCHANGED <<columns, column_names, response_cache, pipeVars, row_data,
                   converted, extractVars>>

\* execute converts only what the validator accepted
Convert ==
    /\ stage = "validated"
    /\ verdict
    /\ LET conv == ConvertRow(columns, column_names, row_data) IN
        IF ConvertRaises(conv)
        THEN stage' = "convert_raised" /\ converted' = <<>>
        ELSE stage' = "converted" /\ converted' = conv
    /\ UNCHANGED <<columns, column_names, response_cache, pipeVars, row_data,
                   verdict, extractVars>>

NextRow == Validate \/ Convert

SpecRow == InitRow /\ [][NextRow]_vars

----------------------------------------------------------------------------
(* The content handling of _make_openai_request on its own.                 *)

Openers ==
    {<<>>,
     FenceJson \o NL,
     FenceJson,
     <<" ">> \o FenceJson \o NL,
     FenceJson \o <<" ">>,
     Fence \o NL,
     FencePy \o NL,
     Fence \o <<" ">> \o <<"j", "s", "o", "n">> \o NL}

Closers ==
    {<<>>,
     NL \o Fence,
     Fence,
     NL \o Fence \o NL,
     NL \o Fence \o <<"j">>}

ExtractDocs ==
    {ListOf(<<Row("a" :> IntOne)>>), ListOf(<<>>), Row("a" :> IntOne), Prose}

ExtractContents ==
    {Http("ok", o \o Body \o c, d) : o \in Openers, c \in Closers, d \in ExtractDocs}

InitExtract ==
    /\ columns \in {<<Col("a", "integer")>>}
    /\ column_names = NamesOf(columns)
    /\ response_cache = NoneVal
    /\ content \in ExtractContents
    /\ data = NoneVal
    /\ stage = "raw"
    /\ row_data = NoneVal /\ verdict = FALSE /\ converted = <<>>
    /\ pc = "idle" /\ response_data = NoneVal /\ idx = 0 /\ http = NoHttp
    /\ yielded = <<>> /\ diag = <<>> /\ requests = 0 /\ invocations = 0
    /\ consumed = 0

Extract ==
    /\ stage = "raw"
    /\ LET r == MakeOpenAIRequest(content) IN
        /\ data' = r.data
        /\ diag' = r.log
    /\ stage' = "extracted"
    /\ UNCHANGED <<columns, column_names, response_cache, pc, response_data, idx,
                   http, yielded, requests, invocations, consumed, rowVars, content>>

NextExtract == Extract

SpecExtract == InitExtract /\ [][NextExtract]_vars

----------------------------------------------------------------------------
(* Properties *)

TransportFailure(h) == h.kind \in FailureKinds
\* the content is prose, or a JSON document that is no array
MalformedResponse(h) == h.kind = "ok" /\ h.doc.t # "list"
Reported(log) == \E i \in 1..Len(log) : log[i].level \in {"ERROR", "WARNING"}
Present(cols, row, i) == cols[i].name \in DOMAIN row.v
ValidatedTypes == IntTypes \cup FloatTypes \cup BoolTypes \cup TextTypes

\* the runtime type a column's declared type calls for
DeclaredRuntimeType(type_name) ==
    LET pg_type == Lower(type_name) IN
    IF pg_type \in IntTypes THEN "int"
    ELSE IF pg_type \in FloatTypes THEN "float"
    ELSE IF pg_type \in BoolTypes THEN "bool"
    ELSE "str"

\* C1: an invocation whose request ended in a Transport Failure or a Malformed
\* Response yields zero rows, reports the event to the diagnostics sink, and
\* ends by returning normally: nothing is raised to the caller and the query
\* is not aborted.
C1_FailureYieldsZeroRowsNoError ==
    (pc \notin {"idle", "created"} /\ (TransportFailure(http) \/ MalformedResponse(http)))
        => /\ yielded = <<>>
           /\ Reported(diag)
           /\ pc = "returned"

\* C2: on an integer-declared column present in the candidate row, the row
\* is accepted only if the value is a JSON integer (a boolean, a fractional
\* number, a string, null, an array or an object rejects it); {"a": 3.5} is
\* rejected under integer and accepted under float.
C2_IntegerColumnNeedsJsonInteger ==
    (stage # "input" /\ row_data.t = "dict")
        => /\ \A i \in 1..Len(columns) :
                (Lower(columns[i].type_name) \in IntTypes /\ Present(columns, row_data, i)
                 /\ verdict)
                    => row_data.v[columns[i].name].t = "int"
           /\ (row_data = Row("a" :> FloatVal) /\ columns = <<Col("a", "float8")>>)
                    => verdict

\* C3: on a column whose declared type is text, date or timestamp, or any
\* type name that is not an integer, float or boolean name (it defaults to
\* generic text), a value present in the candidate row must be a JSON string,
\* otherwise the row is rejected.
C3_TextLikeColumnNeedsJsonString ==
    (stage # "input" /\ row_data.t = "dict")
        => \A i \in 1..Len(columns) :
                (Lower(columns[i].type_name) \notin (IntTypes \cup FloatTypes \cup BoolTypes)
                 /\ Present(columns, row_data, i)
                 /\ verdict)
                    => row_data.v[columns[i].name].t = "str"

\* C4: every row execute yields holds, for every schema column in turn, either
\* None or a value whose runtime type is exactly the declared one: int for
\* integer columns, float for float columns, bool for boolean columns, str for
\* all others.
C4_YieldedRowsAreTyped ==
    \A j \in 1..Len(yielded) :
        /\ Len(yielded[j]) = Len(columns)
        /\ \A i \in 1..Len(columns) :
            /\ yielded[j][i].k = columns[i].name
            /\ \/ yielded[j][i].val = NoneVal
               \/ yielded[j][i].val.t = DeclaredRuntimeType(columns[i].type_name)

\* C4's case: a boolean met an integer column, or an integer a float column,
\* and the row was yielded with the value coerced
C4_Witness ==
    /\ pc = "suspended"
    /\ \E j \in {Len(yielded)} : \E i \in 1..Len(columns) :
        /\ columns[i].name \in DOMAIN response_data.v[idx].v
        /\ yielded[j][i].val \in {PyVal("int", "1"), PyVal("float", "1.0")}
        /\ response_data.v[idx].v[columns[i].name] \in {TrueVal, IntOne}
        /\ response_data.v[idx].v[columns[i].name] # yielded[j][i].val

\* the converted images of the elements among the first n that pass validation
RECURSIVE AcceptedImages(_, _, _, _)
AcceptedImages(cols, names, elems, n) ==
    IF n = 0 THEN <<>>
    ELSE AcceptedImages(cols, names, elems, n - 1)
         \o (IF ValidateRowSchema(cols, elems[n])
             THEN <<ConvertRow(cols, names, elems[n])>> ELSE <<>>)

\* C5: after a successful extraction execute goes through the parsed array in
\* order; what it has yielded is exactly the converted images of the elements
\* processed so far that pass validation, in their order; it never raises, and
\* when it returns every element has been processed.
C5_PerRowRejectionNeverAborts ==
    (pc \notin {"idle", "created", "closed"} /\ http.kind = "ok" /\ http.doc.t = "list")
        => /\ pc \in {"suspended", "returned"}
           /\ pc = "suspended"
                => yielded = AcceptedImages(columns, column_names, http.doc.v, idx)
           /\ pc = "returned"
                => yielded = AcceptedImages(columns, column_names, http.doc.v,
                                            Len(http.doc.v))

RestrictToSchema(cols, row) ==
    Row([key \in DOMAIN row.v \cap {cols[i].name : i \in 1..Len(cols)} |-> row.v[key]])
\* the schema without the columns the row does not carry
PresentColumns(cols, row) == SelectSeq(cols, LAMBDA c : c.name \in DOMAIN row.v)

\* C7: the verdict depends only on the columns present in both the row and the
\* schema: a row sharing no key with the schema ({} included) is accepted, the
\* verdict is the one the row gets under the schema cut down to the columns it
\* carries, and the one it gets with its non-schema keys removed.
C7_VerdictDependsOnSharedColumns ==
    (stage # "input" /\ row_data.t = "dict")
        => /\ (\A i \in 1..Len(columns) : ~Present(columns, row_data, i)) => verdict
           /\ verdict = ValidateRowSchema(PresentColumns(columns, row_data), row_data)
           /\ verdict = ValidateRowSchema(columns, RestrictToSchema(columns, row_data))

\* C7's case: accepted with a schema column missing and a non-schema key present
C7_Witness ==
    /\ stage = "validated"
    /\ verdict
    /\ row_data.t = "dict"
    /\ "z" \in DOMAIN row_data.v
    /\ Len(columns) = 2
    /\ \E i \in 1..2 : ~Present(columns, row_data, i)
    /\ \E i \in 1..2 : Present(columns, row_data, i)

\* C8: every invocation the caller starts consuming issues exactly one request,
\* whatever the outcome, a later invocation on the same instance included, and
\* no response is ever stored on the instance.
C8_OneRequestPerInvocation ==
    /\ requests = consumed
    /\ response_cache = NoneVal
    /\ pc \in {"suspended", "returned", "raised", "aborted"} => http # NoHttp

\* C8's case: a second invocation, after a first that failed, made its own request
C8_Witness ==
    /\ invocations = 2
    /\ consumed = 2
    /\ requests = 2
    /\ TransportFailure(http)

LanguageTags == {<<"j", "s", "o", "n">>, <<"p", "y">>}

\* C9: a valid JSON array wrapped in a fenced code block whose opening marker
\* is immediately followed by a language tag extracts to the same array as the
\* unwrapped text.
C9_FencedArrayExtracts ==
    (/\ stage = "extracted"
     /\ content.doc.t = "list"
     /\ \E tag \in LanguageTags :
            content.text = Fence \o tag \o NL \o Body \o NL \o Fence)
        => data = content.doc

\* C10: an accepted row never carries None for a column of a validated type, so
\* in a converted row a None in such a column comes only from the key being
\* absent; the converter passes a None through only for columns whose type name
\* the validator does not check.
C10_NullOnlyFromAbsentKey ==
    /\ (stage # "input" /\ verdict)
        => \A i \in 1..Len(columns) :
            (Lower(columns[i].type_name) \in ValidatedTypes /\ Present(columns, row_data, i))
                => row_data.v[columns[i].name] # NoneVal
    /\ stage = "converted"
        => \A i \in 1..Len(columns) :
            (converted[i].val = NoneVal /\ Present(columns, row_data, i))
                => Lower(columns[i].type_name) \notin ValidatedTypes

\* C10's case: both ways to a None, a missing key under a validated type and
\* an explicit null under an unchecked one
C10_Witness ==
    /\ stage = "converted"
    /\ Len(columns) = 2
    /\ \E i \in 1..2 :
        /\ Lower(columns[i].type_name) \in ValidatedTypes
        /\ ~Present(columns, row_data, i)
        /\ converted[i].val = NoneVal
    /\ \E i \in 1..2 :
        /\ Present(columns, row_data, i)
        /\ row_data.v[columns[i].name] = NoneVal
        /\ converted[i].val = NoneVal

====
